---- MODULE Spec2Model ----
(***************************************************************************)
(* Model of crates_io_smoke_test (src/crates_io_smoke_test/src/main.rs):   *)
(* one run of `main`, cut into steps at every interaction with the outside *)
(* world (HTTP request, child process, file system), plus the staging      *)
(* registry as an external party that other publishers may change.         *)
(*                                                                         *)
(* Text (URLs, file contents, log lines, error messages, version strings)  *)
(* is a sequence of string tokens; numbers are rendered with ToString and  *)
(* read back by NumVal, so formatting and parsing are real conversions.    *)
(***************************************************************************)
EXTENDS Integers, Sequences, FiniteSets, TLC

\* ---------------------------------------------------------------- bounds
\* u64 is scaled down to WordBits bits; the arithmetic is kept modulo 2^w.
WordBits == 2
MaxMajor == 1
MaxMinor == 1
\* publishes by other parties during one run
MaxOthers == 1

U64Max == 2^WordBits - 1

\* ---------------------------------------------------------------- inputs
DefaultCrateName == "crates-staging-test-tb"
CrateNames == {DefaultCrateName, "foo"}
Token == "s3cr3t-token"
PreTags == {"", "rc"}

Versions == [major : 0..MaxMajor, minor : 0..MaxMinor, patch : 0..U64Max, pre : PreTags]
NoVersion == [major |-> 0, minor |-> 0, patch |-> 0, pre |-> "unset"]

\* ------------------------------------------------- semver::Version (text)
\* Display for semver::Version: major.minor.patch[-pre]
Display(v) ==
    <<ToString(v.major), ".", ToString(v.minor), ".", ToString(v.patch)>>
        \o (IF v.pre = "" THEN <<>> ELSE <<"-", v.pre>>)

IsNum(s) == \E n \in 0..U64Max : ToString(n) = s
NumVal(s) == CHOOSE n \in 0..U64Max : ToString(n) = s

\* Deserialize for semver::Version: the text must be three u64 separated by
\* dots, optionally followed by a pre-release tag; anything else is an error.
ParseVersion(w) ==
    IF /\ Len(w) \in {5, 7}
       /\ w[2] = "." /\ w[4] = "."
       /\ IsNum(w[1]) /\ IsNum(w[3]) /\ IsNum(w[5])
       /\ (Len(w) = 7 => (w[6] = "-" /\ w[7] # ""))
    THEN [ok |-> TRUE,
          v  |-> [major |-> NumVal(w[1]), minor |-> NumVal(w[3]),
                  patch |-> NumVal(w[5]),
                  pre   |-> IF Len(w) = 7 THEN w[7] ELSE ""]]
    ELSE [ok |-> FALSE, v |-> NoVersion]

\* Ord for semver::Version: major, minor, patch, then a pre-release sorts
\* before the release without one.
VersionLT(a, b) ==
    \/ a.major < b.major
    \/ a.major = b.major /\ a.minor < b.minor
    \/ a.major = b.major /\ a.minor = b.minor /\ a.patch < b.patch
    \/ a.major = b.major /\ a.minor = b.minor /\ a.patch = b.patch
       /\ a.pre # "" /\ b.pre = ""

\* `new_version.patch += 1` on a u64: with overflow checks (debug profile)
\* the addition panics at the maximum, without them (release profile) it wraps.
BumpPatch(v, checks) ==
    IF v.patch = U64Max
    THEN IF checks THEN [panic |-> TRUE, v |-> v]
                   ELSE [panic |-> FALSE, v |-> [v EXCEPT !.patch = 0]]
    ELSE [panic |-> FALSE, v |-> [v EXCEPT !.patch = (v.patch + 1) % (U64Max + 1)]]

\* `if options.skip_publish { .. } else { publish }`
ShouldPublishAlways(opts) == TRUE
ShouldPublish(opts) == ~opts.skip_publish

\* ExitStatus::success
successAlways(code) == TRUE
success(code) == code = 0

\* `json.version.krate != options.crate_name` (String equality)
NameMatches(krate, name) == krate = name

\* `json.version.num != version` (structural equality of semver::Version)
VersionMatchesTriple(num, v) ==
    num.major = v.major /\ num.minor = v.minor /\ num.patch = v.patch
VersionMatches(num, v) == num = v

\* Drop for tempfile::TempDir: the directory and everything in it is removed
\* when the value goes out of scope, on the return paths as well.
TempDirLeak(t) == t
TempDirDrop(t) == IF t = "exists" THEN "removed" ELSE t

FsAfterDrop(t, files) == IF TempDirDrop(t) = "exists" THEN files ELSE {}

\* Debug for secrecy::SecretString never shows the value
DebugSecret(s) == "Secret([REDACTED])"
DebugBool(b) == IF b THEN "true" ELSE "false"

\* ------------------------------------------------------------- templates
CrateUrl(name) ==
    <<"https://staging.crates.io/api/v1/crates/", name, "?include=versions">>
VersionUrl(name, v) ==
    <<"https://staging.crates.io/api/v1/crates/", name, "/">> \o Display(v)
ManifestContent(name, v) ==
    <<"[package]\nname = \"", name, "\"\nversion = \"">> \o Display(v)
        \o <<"\"\nedition = \"2018\"\nlicense = \"MIT\"\ndescription = \"test crate\"\n">>
ReadmeContent(name, v) ==
    <<"# ", name, " v">> \o Display(v)
        \o <<"\n\n![](https://media1.giphy.com/media/Ju7l5y9osyymQ/200.gif)\n">>

\* Command: the child inherits the environment of this process, then the
\* `.env(k, v)` overrides are applied.
ChildEnv(penv, overrides) ==
    {p \in penv : \A o \in overrides : o[1] # p[1]} \cup overrides

Running == [status |-> "running", msg |-> <<>>]
Ok == [status |-> "ok", msg |-> <<>>]
Err(m) == [status |-> "err", msg |-> m]
Panicked == [status |-> "panic", msg |-> <<"attempt to add with overflow">>]

VARIABLES
    options,          \* Options: crate_name, token, skip_publish
    token_source,     \* "flag" (--token) or "env" (CARGO_REGISTRY_TOKEN)
    process_env,      \* environment of this process: set of <<name, value>>
    overflow_checks,  \* build profile: TRUE = debug, FALSE = release
    pc,               \* position in main
    registry_max,     \* staging registry: max published version of the crate
    others,           \* publishes by other parties so far
    raced,            \* another party published after the pre-check response
    pre_body,         \* text of max_version in the pre-check response
    json_crate,       \* CrateResponse.krate.max_version
    old_version, new_version,
    tempdir,          \* "none", "exists", "removed"
    fs,               \* files in the scaffold: set of <<path, content>>
    writes,           \* every file written by this process, in order
    children,         \* every child process spawned, in order
    requests,         \* every HTTP request sent, in order
    json_version,     \* VersionResponse.version: krate, num
    log,              \* tracing output: set of lines
    result,           \* outcome of main
    trace             \* steps executed: <<[step, ok]>>

vars == <<options, token_source, process_env, overflow_checks, pc, registry_max,
          others, raced, pre_body, json_crate, old_version, new_version, tempdir, fs,
          writes, children, requests, json_version, log, result, trace>>

NoResponse == [krate |-> "", num |-> NoVersion]

Init ==
    /\ options \in [crate_name : CrateNames, token : {Token}, skip_publish : BOOLEAN]
    /\ token_source \in {"flag", "env"}
    /\ process_env = {<<"PATH", "/usr/bin">>}
            \cup (IF token_source = "env" THEN {<<"CARGO_REGISTRY_TOKEN", Token>>} ELSE {})
    /\ overflow_checks \in BOOLEAN
    /\ pc = "start"
    /\ registry_max \in Versions
    /\ others = 0
    /\ raced = FALSE
    /\ pre_body = <<>>
    /\ json_crate = NoVersion
    /\ old_version = NoVersion
    /\ new_version = NoVersion
    /\ tempdir = "none"
    /\ fs = {}
    /\ writes = <<>>
    /\ children = <<>>
    /\ requests = <<>>
    /\ json_version = NoResponse
    /\ log = {}
    /\ result = Running
    /\ trace = <<>>


\* ---------------------------------------------------------------- helpers
BadBody == <<"not-a-version">>

WriteFile(files, path, content) ==
    {f \in files : f[1] # path} \cup {<<path, content>>}

Step(name, good) == [step |-> name, ok |-> good]

\* `return Err(..)` / `?` inside the publish block: the error is returned and
\* the TempDir goes out of scope.
FailInScope(m, name) ==
    /\ result' = Err(m)
    /\ pc' = "done"
    /\ tempdir' = TempDirDrop(tempdir)
    /\ fs' = FsAfterDrop(tempdir, fs)
    /\ trace' = Append(trace, Step(name, FALSE))

\* `return Err(..)` / `?` outside the publish block
Fail(m, name) ==
    /\ result' = Err(m)
    /\ pc' = "done"
    /\ trace' = Append(trace, Step(name, FALSE))

\* ---------------------------------------------------------------- actions
\* main, lines 34-42: tracing, Options::parse, debug!(?options), HTTP client
Start ==
    /\ pc = "start"
    /\ log' = log \cup {<<"options", options.crate_name, DebugSecret(options.token),
                          DebugBool(options.skip_publish)>>}
    /\ \E built \in BOOLEAN :
         IF built
         THEN pc' = "pre_check" /\ result' = result
         ELSE pc' = "done" /\ result' = Err(<<"Failed to initialize HTTP client">>)
    /\ UNCHANGED <<options, token_source, process_env, overflow_checks, registry_max,
                   others, raced, pre_body, json_crate, old_version, new_version, tempdir,
                   fs, writes, children, requests, json_version, trace>>

\* main, lines 44-72: GET /api/v1/crates/{name}?include=versions and decode
PreCheck ==
    /\ pc = "pre_check"
    /\ requests' = Append(requests, CrateUrl(options.crate_name))
    /\ \E outcome \in {"send_err", "status_err", "body"} :
       \E body \in {Display(registry_max), BadBody} :
         IF outcome # "body"
         THEN /\ Fail(<<"Failed to load crate information from staging.crates.io">>,
                      "pre_check")
              /\ log' = log \cup {<<"url">> \o CrateUrl(options.crate_name)}
              /\ UNCHANGED <<pre_body, json_crate>>
         ELSE /\ pre_body' = body
              /\ IF ParseVersion(body).ok
                 THEN /\ json_crate' = ParseVersion(body).v
                      /\ pc' = "calc_version"
                      /\ result' = result
                      /\ trace' = Append(trace, Step("pre_check", TRUE))
                      /\ log' = log \cup {<<"url">> \o CrateUrl(options.crate_name),
                                          <<"json">> \o Display(ParseVersion(body).v)}
                 ELSE /\ Fail(<<"Failed to deserialize crate information">>, "pre_check")
                      /\ log' = log \cup {<<"url">> \o CrateUrl(options.crate_name)}
                      /\ UNCHANGED json_crate
    /\ UNCHANGED <<options, token_source, process_env, overflow_checks, registry_max,
                   others, raced, old_version, new_version, tempdir, fs, writes, children,
                   json_version>>

\* main, lines 74-81: old_version, new_version, the skip_publish branch
CalcVersion ==
    /\ pc = "calc_version"
    /\ old_version' = json_crate
    /\ IF ShouldPublish(options)
       THEN LET b == BumpPatch(json_crate, overflow_checks) IN
            IF b.panic
            THEN /\ new_version' = json_crate
                 /\ result' = Panicked
                 /\ pc' = "done"
                 /\ log' = log
            ELSE /\ new_version' = b.v
                 /\ result' = result
                 /\ pc' = "tempdir"
                 /\ log' = log \cup {<<"Calculated new version number">>
                                        \o Display(json_crate) \o <<" ">> \o Display(b.v)}
       ELSE /\ new_version' = json_crate
            /\ result' = result
            /\ pc' = "post_check"
            /\ log' = log \cup {<<"Skipping publish step">>}
    /\ UNCHANGED <<options, token_source, process_env, overflow_checks, registry_max,
                   others, raced, pre_body, json_crate, tempdir, fs, writes, children,
                   requests, json_version, trace>>

\* main, lines 83-85: tempdir()
CreateTempDir ==
    /\ pc = "tempdir"
    /\ \E created \in BOOLEAN :
         IF created
         THEN /\ tempdir' = "exists"
              /\ pc' = "cargo_new"
              /\ result' = result
              /\ trace' = Append(trace, Step("tempdir", TRUE))
              /\ log' = log \cup {<<"tempdir.path", "/tmp/.tmpXXXX">>}
              /\ fs' = fs
         ELSE /\ FailInScope(<<"Failed to create temporary working folder">>, "tempdir")
              /\ log' = log
    /\ UNCHANGED <<options, token_source, process_env, overflow_checks, registry_max,
                   others, raced, pre_body, json_crate, old_version, new_version, writes,
                   children, requests, json_version>>

\* main, lines 87-100: `cargo new --lib {crate_name}` in the temporary folder
CargoNew ==
    /\ pc = "cargo_new"
    /\ log' = log \cup {<<"Creating '", options.crate_name, "' project">>}
    /\ \E spawned \in BOOLEAN : \E code \in {0, 101} :
         IF ~spawned
         THEN /\ FailInScope(<<"Failed to run 'cargo new'">>, "cargo_new")
              /\ children' = children
         ELSE /\ children' = Append(children,
                    [cmd  |-> <<"cargo", "new", "--lib", options.crate_name>>,
                     env  |-> ChildEnv(process_env, {<<"CARGO_TERM_COLOR", "always">>}),
                     exit |-> code])
              /\ IF success(code)
                 THEN /\ fs' = {<<"Cargo.toml", ManifestContent(options.crate_name,
                                      [major |-> 0, minor |-> 1, patch |-> 0, pre |-> ""])>>,
                                <<"src/lib.rs", <<"">>>>}
                      /\ pc' = "manifest"
                      /\ result' = result
                      /\ tempdir' = tempdir
                      /\ trace' = Append(trace, Step("cargo_new", TRUE))
                 ELSE FailInScope(<<"Failed to run 'cargo new'">>, "cargo_new")
    /\ UNCHANGED <<options, token_source, process_env, overflow_checks, registry_max,
                   others, raced, pre_body, json_crate, old_version, new_version, writes,
                   requests, json_version>>


\* main, lines 102-122: File::create + write_all of the generated Cargo.toml
WriteManifest ==
    /\ pc = "manifest"
    /\ log' = log \cup {<<"manifest_path", "/tmp/.tmpXXXX/", options.crate_name, "/Cargo.toml">>}
    /\ \E outcome \in {"create_err", "write_err", "ok"} :
         CASE outcome = "create_err" ->
                /\ FailInScope(<<"Failed to open 'Cargo.toml' file">>, "manifest")
                /\ writes' = writes
           [] outcome = "write_err" ->
                /\ FailInScope(<<"Failed to write 'Cargo.toml' file content">>, "manifest")
                /\ writes' = writes
           [] outcome = "ok" ->
                /\ fs' = WriteFile(fs, "Cargo.toml",
                                   ManifestContent(options.crate_name, new_version))
                /\ writes' = Append(writes,
                      [path |-> "Cargo.toml",
                       content |-> ManifestContent(options.crate_name, new_version)])
                /\ pc' = "readme"
                /\ result' = result
                /\ tempdir' = tempdir
                /\ trace' = Append(trace, Step("manifest", TRUE))
    /\ UNCHANGED <<options, token_source, process_env, overflow_checks, registry_max,
                   others, raced, pre_body, json_crate, old_version, new_version, children,
                   requests, json_version>>

\* main, lines 124-138: File::create + write_all of the generated README.md
WriteReadme ==
    /\ pc = "readme"
    /\ log' = log \cup {<<"readme_path", "/tmp/.tmpXXXX/", options.crate_name, "/README.md">>}
    /\ \E outcome \in {"create_err", "write_err", "ok"} :
         CASE outcome = "create_err" ->
                /\ FailInScope(<<"Failed to open 'README.md' file">>, "readme")
                /\ writes' = writes
           [] outcome = "write_err" ->
                /\ FailInScope(<<"Failed to write 'README.md' file content">>, "readme")
                /\ writes' = writes
           [] outcome = "ok" ->
                /\ fs' = WriteFile(fs, "README.md",
                                   ReadmeContent(options.crate_name, new_version))
                /\ writes' = Append(writes,
                      [path |-> "README.md",
                       content |-> ReadmeContent(options.crate_name, new_version)])
                /\ pc' = "publish"
                /\ result' = result
                /\ tempdir' = tempdir
                /\ trace' = Append(trace, Step("readme", TRUE))
    /\ UNCHANGED <<options, token_source, process_env, overflow_checks, registry_max,
                   others, raced, pre_body, json_crate, old_version, new_version, children,
                   requests, json_version>>

\* main, lines 140-159: `cargo publish --registry staging --allow-dirty`; the
\* token is exposed into the child's environment; the TempDir is dropped at
\* the end of the block.
CargoPublish ==
    /\ pc = "publish"
    /\ log' = log \cup {<<"Publishing to staging.crates.io">>}
    /\ \E spawned \in BOOLEAN : \E code \in {0, 101} :
         IF ~spawned
         THEN /\ FailInScope(<<"Failed to run 'cargo publish'">>, "publish")
              /\ UNCHANGED <<children, registry_max>>
         ELSE /\ children' = Append(children,
                    [cmd  |-> <<"cargo", "publish", "--registry", "staging", "--allow-dirty">>,
                     env  |-> ChildEnv(process_env,
                                {<<"CARGO_TERM_COLOR", "always">>,
                                 <<"CARGO_REGISTRIES_STAGING_INDEX",
                                   "https://github.com/rust-lang/staging.crates.io-index">>,
                                 <<"CARGO_REGISTRIES_STAGING_TOKEN", options.token>>}),
                     exit |-> code])
              /\ IF success(code)
                 THEN /\ pc' = "post_check"
                      /\ result' = result
                      /\ tempdir' = TempDirDrop(tempdir)
                      /\ fs' = FsAfterDrop(tempdir, fs)
                      /\ trace' = Append(trace, Step("publish", TRUE))
                      /\ registry_max' = IF code = 0 /\ VersionLT(registry_max, new_version)
                                         THEN new_version ELSE registry_max
                 ELSE /\ FailInScope(<<"Failed to run 'cargo publish'">>, "publish")
                      /\ registry_max' = registry_max
    /\ UNCHANGED <<options, token_source, process_env, overflow_checks, others, raced,
                   pre_body, json_crate, old_version, new_version, writes, requests,
                   json_version>>

\* `num` in the registry's answer to the post-check: the version asked for,
\* the version seen by the pre-check, the registry's current max version, or
\* the version asked for with another pre-release tag.
ResponseNums ==
    {new_version, old_version, registry_max}
        \cup {[new_version EXCEPT !.pre = t] : t \in PreTags}

\* main, lines 162-168: info!(%version, ..) and debug!(?url)
PostCheckLog ==
    {<<"Checking staging.crates.io API for the new version">> \o Display(new_version),
     <<"url">> \o VersionUrl(options.crate_name, new_version)}

\* main, lines 161-192: GET /api/v1/crates/{name}/{version} and decode
PostCheck ==
    /\ pc = "post_check"
    /\ requests' = Append(requests, VersionUrl(options.crate_name, new_version))
    /\ \E outcome \in {"send_err", "status_err", "body"} :
       \E krate \in CrateNames :
       \E num \in {Display(v) : v \in ResponseNums} \cup {BadBody} :
         IF outcome # "body"
         THEN /\ Fail(<<"Failed to load version information from staging.crates.io">>,
                      "post_check")
              /\ log' = log \cup PostCheckLog
              /\ UNCHANGED json_version
         ELSE IF ParseVersion(num).ok
              THEN /\ json_version' = [krate |-> krate, num |-> ParseVersion(num).v]
                   /\ log' = log \cup PostCheckLog
                               \cup {<<"json", krate>> \o Display(ParseVersion(num).v)}
                   /\ pc' = "cmp_name"
                   /\ result' = result
                   /\ trace' = Append(trace, Step("post_check", TRUE))
              ELSE /\ Fail(<<"Failed to deserialize version information">>, "post_check")
                   /\ log' = log \cup PostCheckLog
                   /\ UNCHANGED json_version
    /\ UNCHANGED <<options, token_source, process_env, overflow_checks, registry_max,
                   others, raced, pre_body, json_crate, old_version, new_version, tempdir, fs,
                   writes, children>>

\* main, lines 194-200: the crate name of the response
CompareName ==
    /\ pc = "cmp_name"
    /\ IF ~NameMatches(json_version.krate, options.crate_name)
       THEN Fail(<<"API returned an unexpected crate name; ", "expected '",
                   options.crate_name, "' found '", json_version.krate, "'">>,
                 "cmp_name")
       ELSE /\ pc' = "cmp_version"
            /\ result' = result
            /\ trace' = Append(trace, Step("cmp_name", TRUE))
    /\ UNCHANGED <<options, token_source, process_env, overflow_checks, registry_max,
                   others, raced, pre_body, json_crate, old_version, new_version, tempdir, fs,
                   writes, children, requests, json_version, log>>

\* main, lines 202-210: the version number of the response, then Ok(())
CompareVersion ==
    /\ pc = "cmp_version"
    /\ IF ~VersionMatches(json_version.num, new_version)
       THEN Fail(<<"API returned an unexpected version number; ", "expected '">>
                    \o Display(new_version) \o <<"' found '">>
                    \o Display(json_version.num) \o <<"'">>,
                 "cmp_version")
       ELSE /\ pc' = "done"
            /\ result' = Ok
            /\ trace' = Append(trace, Step("cmp_version", TRUE))
    /\ UNCHANGED <<options, token_source, process_env, overflow_checks, registry_max,
                   others, raced, pre_body, json_crate, old_version, new_version, tempdir, fs,
                   writes, children, requests, json_version, log>>

\* the version the next publisher puts on the registry
NextRelease(v) ==
    IF v.patch < U64Max THEN [v EXCEPT !.patch = @ + 1, !.pre = ""]
    ELSE IF v.minor < MaxMinor THEN [v EXCEPT !.minor = @ + 1, !.patch = 0, !.pre = ""]
    ELSE IF v.major < MaxMajor
         THEN [v EXCEPT !.major = @ + 1, !.minor = 0, !.patch = 0, !.pre = ""]
    ELSE v

\* The staging registry is shared: another publisher (or another run of this
\* tool) publishes the next patch version while this run is in progress.
ConcurrentPublish ==
    /\ pc \notin {"start", "done"}
    /\ others < MaxOthers
    /\ NextRelease(registry_max) # registry_max
    /\ registry_max' = NextRelease(registry_max)
    /\ others' = others + 1
    /\ raced' = (raced \/ pre_body # <<>>)
    /\ UNCHANGED <<options, token_source, process_env, overflow_checks, pc, pre_body,
                   json_crate, old_version, new_version, tempdir, fs, writes, children,
                   requests, json_version, log, result, trace>>

Next ==
    \/ Start
    \/ PreCheck
    \/ CalcVersion
    \/ CreateTempDir
    \/ CargoNew
    \/ WriteManifest
    \/ WriteReadme
    \/ CargoPublish
    \/ PostCheck
    \/ CompareName
    \/ CompareVersion
    \/ ConcurrentPublish

Spec == Init /\ [][Next]_vars

\* ------------------------------------------------------------ type check
TypeOK ==
    /\ pc \in {"start", "pre_check", "calc_version", "tempdir", "cargo_new", "manifest",
               "readme", "publish", "post_check", "cmp_name", "cmp_version", "done"}
    /\ tempdir \in {"none", "exists", "removed"}
    /\ result.status \in {"running", "ok", "err", "panic"}
    /\ registry_max \in Versions
    /\ (pc = "done") = (result.status # "running")


\* ------------------------------------------------------- claim vocabulary
Range(f) == {f[i] : i \in DOMAIN f}

Contains(msg, part) ==
    \E i \in 1..(Len(msg) - Len(part) + 1) : SubSeq(msg, i, i + Len(part) - 1) = part

\* the two request shapes
IsCrateUrl(u) == u[3] = "?include=versions"
IsVersionUrl(u) == u[3] = "/"
PostRequests == {requests[i] : i \in {j \in DOMAIN requests : IsVersionUrl(requests[j])}}
PreRequestCount == Cardinality({j \in DOMAIN requests : IsCrateUrl(requests[j])})

\* the version the pre-check returned, read from the response text
Observed == ParseVersion(pre_body).v

\* patch + 1 over the integers (no width)
PatchPlusOne(v) == [v EXCEPT !.patch = v.patch + 1]

NewChildren == {children[i] : i \in {j \in DOMAIN children : children[j].cmd[2] = "new"}}
PublishChildren == {children[i] : i \in {j \in DOMAIN children : children[j].cmd[2] = "publish"}}
WritesTo(path) == {writes[i] : i \in {j \in DOMAIN writes : writes[j].path = path}}

StepOrder == <<"pre_check", "tempdir", "cargo_new", "manifest", "readme", "publish",
               "post_check", "cmp_name", "cmp_version">>
StepIdx(name) == CHOOSE i \in DOMAIN StepOrder : StepOrder[i] = name

\* C1: with skip_publish = false, the version in the written Cargo.toml, in the
\* written README, in the post-check URL and the one expected in `num` are all
\* exactly major.minor.(patch+1) of the version the pre-check returned.
C1_PublishTargetsPatchPlusOne ==
    ~options.skip_publish =>
        /\ \A w \in WritesTo("Cargo.toml") :
              w.content = ManifestContent(options.crate_name, PatchPlusOne(Observed))
        /\ \A w \in WritesTo("README.md") :
              w.content = ReadmeContent(options.crate_name, PatchPlusOne(Observed))
        /\ \A u \in PostRequests :
              u = VersionUrl(options.crate_name, PatchPlusOne(Observed))
        /\ (pc = "cmp_version" => new_version = PatchPlusOne(Observed))

\* C2: with skip_publish = true, the version in the post-check URL is the text
\* the pre-check returned, and the version expected in `num` is that version.
C2_SkipKeepsVersion ==
    options.skip_publish =>
        /\ \A u \in PostRequests :
              u = <<"https://staging.crates.io/api/v1/crates/", options.crate_name, "/">>
                      \o pre_body
        /\ (pc \in {"post_check", "cmp_name", "cmp_version"} => new_version = Observed)
        /\ (result.status = "ok" => json_version.num = Observed)

C2_Witness ==
    /\ options.skip_publish
    /\ PostRequests # {}
    /\ result.status = "ok"
    /\ Observed.pre = "rc"
    /\ raced

\* C3: a `cargo publish` child that exits non-zero ends the run in failure and
\* the post-check request is never sent.
C3_PublishFailureStops ==
    \A c \in PublishChildren :
        c.exit # 0 =>
            /\ pc = "done"
            /\ result.status = "err"
            /\ PostRequests = {}

C3_Witness ==
    \E c \in PublishChildren : c.exit # 0 /\ result.status = "err"

\* C4: success is reported only if the response's crate name equals crate_name
\* and its version equals the expected version; a differing name or version
\* ends the run with an error that reports the expected and the found value.
C4_SuccessOnlyIfMatch ==
    /\ result.status = "ok" =>
          /\ json_version.krate = options.crate_name
          /\ json_version.num = new_version
    /\ (pc = "done" /\ json_version # NoResponse
           /\ json_version.krate # options.crate_name) =>
          /\ result.status = "err"
          /\ Contains(result.msg, <<"expected '", options.crate_name>>)
          /\ Contains(result.msg, <<"' found '", json_version.krate>>)
    /\ (pc = "done" /\ json_version # NoResponse
           /\ json_version.krate = options.crate_name
           /\ json_version.num # new_version) =>
          /\ result.status = "err"
          /\ Contains(result.msg, <<"expected '">> \o Display(new_version))
          /\ Contains(result.msg, <<"' found '">> \o Display(json_version.num))

C4_Witness ==
    /\ pc = "done"
    /\ json_version.krate = options.crate_name
    /\ VersionMatchesTriple(json_version.num, new_version)
    /\ json_version.num.pre # new_version.pre
    /\ result.status = "err"

\* C5: the patch increment yields a version strictly greater than the version
\* it started from, with major and minor unchanged, for every version,
\* the one with the largest patch included.
C5_IncrementStrictlyGreater ==
    (~options.skip_publish /\ old_version # NoVersion) =>
        /\ result.status # "panic"
        /\ VersionLT(old_version, new_version)
        /\ new_version.major = old_version.major
        /\ new_version.minor = old_version.minor

\* C6: in every terminal state the temporary scaffold directory does not exist.
C6_TempDirGone ==
    pc = "done" => (tempdir # "exists" /\ fs = {})

C6_Witness ==
    /\ pc = "done"
    /\ tempdir = "removed"
    /\ result.status = "err"
    /\ Len(writes) = 1

\* C7: the token value appears in no log line, no request URL, no written
\* file, no error message and not in the environment of `cargo new`; the only
\* place it is handed to is CARGO_REGISTRIES_STAGING_TOKEN of `cargo publish`.
C7_TokenConfined ==
    /\ \A line \in log : options.token \notin Range(line)
    /\ \A i \in DOMAIN requests : options.token \notin Range(requests[i])
    /\ \A i \in DOMAIN writes : options.token \notin Range(writes[i].content)
    /\ options.token \notin Range(result.msg)
    /\ \A c \in NewChildren : \A p \in c.env : p[2] # options.token
    /\ \A i \in DOMAIN children : \A p \in children[i].env :
          p[2] = options.token =>
             (p[1] = "CARGO_REGISTRIES_STAGING_TOKEN" /\ children[i].cmd[2] = "publish")

\* C8: with skip_publish = true no temporary directory is created, no child
\* process is spawned, no file is written, and the post-check follows the
\* pre-check directly.
C8_SkipBypassesPublish ==
    options.skip_publish =>
        /\ tempdir = "none"
        /\ fs = {}
        /\ children = <<>>
        /\ writes = <<>>
        /\ \A i \in DOMAIN trace :
              trace[i].step \in {"pre_check", "post_check", "cmp_name", "cmp_version"}
        /\ (Len(trace) >= 2 => (trace[1].step = "pre_check" /\ trace[2].step = "post_check"))

C8_Witness ==
    /\ options.skip_publish
    /\ result.status = "ok"
    /\ Len(requests) = 2

\* C9: when the registry's max version changed after the pre-check, the version
\* queried and expected by the post-check is still the one derived from the
\* pre-check's value (patch+1, or the same when publish is skipped), and the
\* max version is read at most once.
C9_DerivedFromPreCheck ==
    /\ PreRequestCount <= 1
    /\ raced =>
          LET expected == IF options.skip_publish THEN Observed ELSE PatchPlusOne(Observed)
          IN  /\ \A u \in PostRequests : u = VersionUrl(options.crate_name, expected)
              /\ (pc = "cmp_version" => new_version = expected)

\* C10: the steps run at most once and in the fixed order, a failed step is
\* the last one and ends the run in failure, and a non-zero `cargo new` means
\* no file is written and `cargo publish` is never run.
C10_OnceInOrder ==
    /\ \A i, j \in DOMAIN trace :
          i < j => StepIdx(trace[i].step) < StepIdx(trace[j].step)
    /\ \A i \in DOMAIN trace : i < Len(trace) => trace[i].ok
    /\ (Len(trace) > 0 /\ ~trace[Len(trace)].ok) => (pc = "done" /\ result.status = "err")
    /\ Len(requests) <= 2 /\ Len(children) <= 2 /\ Len(writes) <= 2
    /\ \A c \in NewChildren :
          c.exit # 0 => (writes = <<>> /\ PublishChildren = {} /\ pc = "done"
                         /\ result.status = "err")

C10_Witness ==
    /\ \E c \in NewChildren : c.exit # 0
    /\ pc = "done"
    /\ Len(trace) = 3

====
